---- MODULE Spec2Model ----
(***************************************************************************)
(* A model of cmd/http-stats.go (ConnStats, HTTPAPIStats, HTTPStats) and   *)
(* cmd/posix-list-dir_other.go (readDir, readDirN).                        *)
(*                                                                         *)
(* Three independent parts share the module; each has its own              *)
(* specification, which leaves the other parts' variables untouched:       *)
(*   SpecHTTP / FairSpecHTTP / SpecUpdate   the three HTTPAPIStats tables  *)
(*   SpecConn                               the four byte counters         *)
(*   SpecDir                                one call of readDirN           *)
(***************************************************************************)
EXTENDS Integers, Sequences, FiniteSets, TLC

(***************************************************************************)
(* Bounds of the model.                                                    *)
(***************************************************************************)
\* number of goroutines calling into one HTTPStats
NThreads == 2
\* number of top-level calls made on the HTTPStats in one run
MaxCalls == 2

Threads == 1..NThreads

(***************************************************************************)
(* HTTPStats: three HTTPAPIStats tables (http-stats.go:145-149).           *)
(***************************************************************************)
Tables == {"currentS3Requests", "totalS3Requests", "totalS3Errors"}

\* The table the request handlers call Inc, Dec and Load on themselves: the
\* in-flight counts.  The totals change through updateStats and are read through
\* toServerHTTPStats.
DirectTables == {"currentS3Requests"}

\* API names used as keys of the tables
APIs == {"GetObject", "PutObject"}

\* The nil map (the zero value of HTTPAPIStats.APIStats).
NilRef == "nil"

\* A Go map[string]int value: a function from the keys present to their counts.
EmptyMap == [a \in {} |-> 0]

\* m[a] as Go reads it: the zero value when the key is absent.
MapGet(m, a) == IF a \in DOMAIN m THEN m[a] ELSE 0

\* m[a] = v
MapPut(m, a, v) == [x \in (DOMAIN m) \cup {a} |-> IF x = a THEN v ELSE m[x]]

VARIABLES
    APIStats,   \* APIStats[t]: the map reference held by table t (NilRef or an object)
    heap,       \* heap[o]: the contents of map object o
    lock,       \* lock[t]: 0 when t's RWMutex is free, else the thread holding it
    pc,         \* pc[th]: where thread th is
    frame,      \* frame[th]: receiver, argument and return address of the running Inc/Dec/Load
    cur,        \* cur[th]: the top-level call th is in (or has last returned from)
    rv,         \* rv[th]: the value the last Load returned to th
    snap,       \* snap[th]: the ServerHTTPStats th is building / has returned
    histogram,  \* httpRequestsDuration: observations per <<api, duration>>
    ncalls,     \* top-level calls started so far
    workload,   \* the <<api, request>> pairs updateStats is called with in this run
    \* history variables (not program state)
    pre,        \* pre[th]: the table as th found it when it entered the critical section
    eff,        \* eff[th][t][a]: change th's current top-level call made to t[a]
    obs,        \* obs[th]: observations th's current top-level call recorded
    snapSeen    \* snapSeen[th]: the counts visible through snap[th] when it was returned

httpVars == <<APIStats, heap, lock, pc, frame, cur, rv, snap, histogram, ncalls,
              workload, pre, eff, obs, snapSeen>>

\* ConnStats
VARIABLES
    connStats,  \* connStats[c]: the value of counter c
    cpc,        \* cpc[th]: where th is in toServerConnStats
    csnap,      \* csnap[th]: the ServerConnStats th is building, or was returned
    nsnaps,     \* toServerConnStats calls started
    \* history variables
    incs,       \* incs[th]: how many increments th has made, and the last one
    cstart,     \* cstart[th]: the counters when th's toServerConnStats started
    cend,       \* cend[th]: the counters when th's toServerConnStats returned
    held,       \* every combination of values the four counters have held
    clean       \* no increment so far was negative or wrapped its counter

connVars == <<connStats, cpc, csnap, nsnaps, incs, cstart, cend, held, clean>>

\* readDirN
VARIABLES
    dirPath,    \* argument: the directory's path
    count,      \* argument
    openErr,    \* environment: "ok" or the errno os.Open fails with
    dirList,    \* environment: the kinds of the directory's entries, in read order
    dpc,        \* where the call is
    dOpen,      \* whether d is open
    dpos,       \* entries d has handed out so far
    maxEntries, done, remaining,    \* locals, lines 37-43
    fis,        \* the current batch: indices into dirList
    fidx,       \* the next element of fis the range loop takes
    entries,    \* the names accumulated
    rentries,   \* returned entries
    rerr,       \* returned error ("nil" for none)
    logged,     \* what logger.LogIf was given
    \* history variables
    nreads,     \* Readdir calls made
    readErr,    \* the error a Readdir failed with ("nil" if none did)
    asked,      \* the n of the last Readdir(n)
    rawLen      \* the length of the last batch as Readdir returned it

dirVars == <<dirPath, count, openErr, dirList, dpc, dOpen, dpos, maxEntries, done,
             remaining, fis, fidx, entries, rentries, rerr, logged, nreads, readErr,
             asked, rawLen>>

vars == <<httpVars, connVars, dirVars>>

\* The map a reference denotes; reading through nil behaves as an empty map.
Deref(ref) == IF ref = NilRef THEN EmptyMap ELSE heap[ref]

\* The map of table t as a reader holding its reference sees it now.
TableMap(t) == Deref(APIStats[t])

NoFrame == [tbl |-> "-", api |-> "-", ret |-> "-", ok |-> FALSE]
NoReq == [isS3 |-> FALSE, path |-> <<>>, method |-> "-", status |-> 0, secs |-> 0]
NoCall == [op |-> "none", tbl |-> "-", api |-> "-", req |-> NoReq]
NoPre == [ref |-> "-", m |-> EmptyMap]
NoSnap == [CurrentS3Requests |-> "-", TotalS3Requests |-> "-", TotalS3Errors |-> "-"]
NoSeen == [CurrentS3Requests |-> EmptyMap, TotalS3Requests |-> EmptyMap,
           TotalS3Errors |-> EmptyMap]
ZeroEff == [t \in Tables |-> [a \in APIs |-> 0]]

\* newHTTPStats(): &HTTPStats{} - three tables with nil maps
Fresh ==
    /\ APIStats = [t \in Tables |-> NilRef]
    /\ heap = [t \in Tables |-> EmptyMap]
    /\ histogram = [k \in {} |-> 0]

\* no call is running: the locks are free and every thread is idle
Quiescent ==
    /\ lock = [t \in Tables |-> 0]
    /\ pc = [th \in Threads |-> "idle"]
    /\ frame = [th \in Threads |-> NoFrame]
    /\ cur = [th \in Threads |-> NoCall]
    /\ rv = [th \in Threads |-> "-"]
    /\ snap = [th \in Threads |-> NoSnap]
    /\ ncalls = 0
    /\ pre = [th \in Threads |-> NoPre]
    /\ eff = [th \in Threads |-> ZeroEff]
    /\ obs = [th \in Threads |-> <<>>]
    /\ snapSeen = [th \in Threads |-> NoSeen]

(***************************************************************************)
(* Requests.  A path is the sequence of its segments ("/a/b" is <<"a",     *)
(* "b">>); durations are in milliseconds.                                  *)
(***************************************************************************)
\* prometheusMetricsPath, declared outside http-stats.go: "/prometheus/metrics"
prometheusMetricsPath == <<"prometheus", "metrics">>

\* strings.HasSuffix(s, suffix)
HasSuffix(s, suffix) ==
    /\ Len(s) >= Len(suffix)
    /\ SubSeq(s, Len(s) - Len(suffix) + 1, Len(s)) = suffix

\* an object, the metrics endpoint, and an object whose key ends like the endpoint
ObjectPath == <<"bucket", "key">>
ScrapePath == <<"minio">> \o prometheusMetricsPath
KeyPath == <<"bucket", "logs">> \o prometheusMetricsPath

Req(isS3, path, method, status, secs) ==
    [isS3 |-> isS3, path |-> path, method |-> method, status |-> status, secs |-> secs]

\* every combination of request class, path, method, status code and duration
ReqsAll ==
    [isS3 : BOOLEAN, path : {ObjectPath, ScrapePath, KeyPath}, method : {"GET", "PUT"},
     status : {0, 199, 200, 299, 300, 500}, secs : {50, 120}]

WorkloadAll == APIs \X ReqsAll

\* a request mix that takes every branch of updateStats
WorkloadSmall ==
    { <<"GetObject", Req(TRUE, ObjectPath, "GET", 200, 50)>>,
      <<"GetObject", Req(TRUE, ObjectPath, "GET", 500, 120)>>,
      <<"PutObject", Req(TRUE, ObjectPath, "PUT", 0, 50)>>,
      <<"GetObject", Req(TRUE, ScrapePath, "GET", 200, 50)>>,
      <<"PutObject", Req(FALSE, ObjectPath, "PUT", 500, 50)>> }

(***************************************************************************)
(* HTTPAPIStats: the bodies of the critical sections, as functions of the  *)
(* map found.                                                              *)
(***************************************************************************)
\* a lost update: the entry is overwritten with 1
IncEntryOverwrite(m, api, ok) == MapPut(m, api, 1)

\* Inc, lines 118 and 121: increment the entry if the lookup found it (ok),
\* and set it to 1 otherwise
IncEntry(m, api, ok) ==
    IF ok THEN MapPut(m, api, MapGet(m, api) + 1) ELSE MapPut(m, api, 1)

\* Inc, lines 117-121, on a map that nothing else touches meanwhile
IncMap(m, api) == IncEntry(m, api, api \in DOMAIN m)

\* a decrement that does not look at the entry first
DecMapUnchecked(m, api) == MapPut(m, api, MapGet(m, api) - 1)

\* Dec, lines 131-133: decrement the entry only if it exists and is > 0
DecMap(m, api) ==
    IF api \in DOMAIN m /\ m[api] > 0 THEN MapPut(m, api, m[api] - 1) ELSE m

\* Load, line 140: the map reference itself is returned
LoadResult(ref) == ref

\* updateStats, line 172
successReq(status) == status >= 200 /\ status < 300

\* a table lock that is never released
UnlockForgotten(t) == UNCHANGED lock

\* stats.Unlock() (deferred: runs as the method returns)
Unlock(t) == lock' = [lock EXCEPT ![t] = 0]

\* a Lock that does not wait for the holder
LockBarging(th, t) == lock' = [lock EXCEPT ![t] = th]

\* stats.Lock(): blocks while another thread holds the table's lock
Lock(th, t) ==
    /\ lock[t] = 0
    /\ lock' = [lock EXCEPT ![t] = th]

(***************************************************************************)
(* Calls.                                                                  *)
(***************************************************************************)
\* th enters method op of table t with argument api; ret is where it resumes
Enter(th, op, t, api, ret) ==
    /\ pc' = [pc EXCEPT ![th] = op]
    /\ frame' = [frame EXCEPT ![th] = [tbl |-> t, api |-> api, ret |-> ret, ok |-> FALSE]]

\* th starts a top-level call: the history of its previous call is dropped
Begin(th, call) ==
    /\ pc[th] = "idle"
    /\ ncalls < MaxCalls
    /\ ncalls' = ncalls + 1
    /\ cur' = [cur EXCEPT ![th] = call]
    /\ eff' = [eff EXCEPT ![th] = ZeroEff]
    /\ obs' = [obs EXCEPT ![th] = <<>>]

\* th's top-level call has returned and its result is no longer looked at
Finish(th) ==
    /\ pc' = [pc EXCEPT ![th] = "idle"]
    /\ cur' = [cur EXCEPT ![th] = NoCall]
    /\ eff' = [eff EXCEPT ![th] = ZeroEff]
    /\ obs' = [obs EXCEPT ![th] = <<>>]
    /\ snap' = [snap EXCEPT ![th] = NoSnap]
    /\ snapSeen' = [snapSeen EXCEPT ![th] = NoSeen]

\* the method th is in returns to frame[th].ret
Leave(th) ==
    IF frame[th].ret = "idle"
    THEN /\ Finish(th)
         /\ frame' = [frame EXCEPT ![th] = NoFrame]
    ELSE /\ pc' = [pc EXCEPT ![th] = frame[th].ret]
         /\ frame' = [frame EXCEPT ![th] = NoFrame]
         /\ UNCHANGED <<cur, eff, obs, snap, snapSeen>>

\* the change from map before to map after, added to th's effect on table t
AddEff(th, t, before, after) ==
    eff' = [eff EXCEPT ![th][t] =
              [a \in APIs |-> @[a] + MapGet(after, a) - MapGet(before, a)]]

(***************************************************************************)
(* HTTPAPIStats.Inc (lines 108-122).  The receiver is a field of a live    *)
(* HTTPStats, so the stats == nil test of line 111 is never true.          *)
(***************************************************************************)
CallInc(th) ==
    \E t \in DirectTables, a \in APIs :
        /\ Begin(th, [op |-> "Inc", tbl |-> t, api |-> a, req |-> NoReq])
        /\ Enter(th, "Inc_Lock", t, a, "idle")
        /\ UNCHANGED <<APIStats, heap, lock, rv, snap, histogram, workload, pre, snapSeen>>
    /\ UNCHANGED <<connVars, dirVars>>

\* line 109
IncLock(th) ==
    /\ pc[th] = "Inc_Lock"
    /\ Lock(th, frame[th].tbl)
    /\ pc' = [pc EXCEPT ![th] = "Inc_Body"]
    /\ UNCHANGED <<APIStats, heap, frame, cur, rv, snap, histogram, ncalls, workload,
                   pre, eff, obs, snapSeen>>
    /\ UNCHANGED <<connVars, dirVars>>

\* lines 111-117: make the map if it is nil, and look the entry up
IncBody(th) ==
    /\ pc[th] = "Inc_Body"
    /\ LET t == frame[th].tbl
           ref == APIStats[t]
       IN  /\ APIStats' = [APIStats EXCEPT ![t] = IF ref = NilRef THEN t ELSE ref]
           /\ heap' = IF ref = NilRef THEN [heap EXCEPT ![t] = EmptyMap] ELSE heap
           /\ pre' = [pre EXCEPT ![th] = [ref |-> ref, m |-> Deref(ref)]]
           /\ frame' = [frame EXCEPT ![th].ok = frame[th].api \in DOMAIN Deref(ref)]
    /\ pc' = [pc EXCEPT ![th] = "Inc_Store"]
    /\ UNCHANGED <<lock, cur, rv, snap, histogram, ncalls, workload, eff, obs, snapSeen>>
    /\ UNCHANGED <<connVars, dirVars>>

\* lines 117-121: increment the entry that was found, or create it with 1
IncStore(th) ==
    /\ pc[th] = "Inc_Store"
    /\ LET t == frame[th].tbl
           before == TableMap(t)
           after == IncEntry(before, frame[th].api, frame[th].ok)
       IN  /\ heap' = [heap EXCEPT ![APIStats[t]] = after]
           /\ AddEff(th, t, before, after)
    /\ pc' = [pc EXCEPT ![th] = "Inc_Unlock"]
    /\ UNCHANGED <<APIStats, lock, frame, cur, rv, snap, histogram, ncalls, workload,
                   pre, obs, snapSeen>>
    /\ UNCHANGED <<connVars, dirVars>>

\* line 110, run on return
IncUnlock(th) ==
    /\ pc[th] = "Inc_Unlock"
    /\ Unlock(frame[th].tbl)
    /\ Leave(th)
    /\ pre' = [pre EXCEPT ![th] = NoPre]
    /\ UNCHANGED <<APIStats, heap, rv, histogram, ncalls, workload>>
    /\ UNCHANGED <<connVars, dirVars>>

(***************************************************************************)
(* HTTPAPIStats.Dec (lines 125-134).                                       *)
(***************************************************************************)
CallDec(th) ==
    \E t \in DirectTables, a \in APIs :
        /\ Begin(th, [op |-> "Dec", tbl |-> t, api |-> a, req |-> NoReq])
        /\ Enter(th, "Dec_Lock", t, a, "idle")
        /\ UNCHANGED <<APIStats, heap, lock, rv, snap, histogram, workload, pre, snapSeen>>
    /\ UNCHANGED <<connVars, dirVars>>

\* line 126
DecLock(th) ==
    /\ pc[th] = "Dec_Lock"
    /\ Lock(th, frame[th].tbl)
    /\ pc' = [pc EXCEPT ![th] = "Dec_Body"]
    /\ UNCHANGED <<APIStats, heap, frame, cur, rv, snap, histogram, ncalls, workload,
                   pre, eff, obs, snapSeen>>
    /\ UNCHANGED <<connVars, dirVars>>

\* lines 131-133: a read of a nil map finds no entry, so nothing is written to it
DecBody(th) ==
    /\ pc[th] = "Dec_Body"
    /\ LET t == frame[th].tbl
           ref == APIStats[t]
           after == DecMap(Deref(ref), frame[th].api)
       IN  /\ heap' = IF after = Deref(ref) THEN heap ELSE [heap EXCEPT ![ref] = after]
           /\ pre' = [pre EXCEPT ![th] = [ref |-> ref, m |-> Deref(ref)]]
           /\ AddEff(th, t, Deref(ref), after)
    /\ pc' = [pc EXCEPT ![th] = "Dec_Unlock"]
    /\ UNCHANGED <<APIStats, lock, frame, cur, rv, snap, histogram, ncalls, workload,
                   obs, snapSeen>>
    /\ UNCHANGED <<connVars, dirVars>>

\* line 127, run on return
DecUnlock(th) ==
    /\ pc[th] = "Dec_Unlock"
    /\ Unlock(frame[th].tbl)
    /\ Leave(th)
    /\ pre' = [pre EXCEPT ![th] = NoPre]
    /\ UNCHANGED <<APIStats, heap, rv, histogram, ncalls, workload>>
    /\ UNCHANGED <<connVars, dirVars>>

(***************************************************************************)
(* A request handler, as the specification describes the in-flight count:  *)
(* currentS3Requests.Inc(api) when the request starts, and                  *)
(* currentS3Requests.Dec(api) when it completes.  The handlers themselves  *)
(* are not part of http-stats.go.                                          *)
(***************************************************************************)
\* the request starts: call currentS3Requests.Inc(api)
CallHandler(th) ==
    \E a \in APIs :
        /\ Begin(th, [op |-> "Handle", tbl |-> "currentS3Requests", api |-> a,
                      req |-> NoReq])
        /\ Enter(th, "Inc_Lock", "currentS3Requests", a, "H_serve")
        /\ UNCHANGED <<APIStats, heap, lock, rv, snap, histogram, workload, pre, snapSeen>>
    /\ UNCHANGED <<connVars, dirVars>>

\* the request completes: call currentS3Requests.Dec(api)
HandlerComplete(th) ==
    /\ pc[th] = "H_serve"
    /\ Enter(th, "Dec_Lock", "currentS3Requests", cur[th].api, "idle")
    /\ UNCHANGED <<APIStats, heap, lock, cur, rv, snap, histogram, ncalls, workload,
                   pre, eff, obs, snapSeen>>
    /\ UNCHANGED <<connVars, dirVars>>

(***************************************************************************)
(* HTTPAPIStats.Load (lines 137-141).                                      *)
(***************************************************************************)
CallLoad(th) ==
    \E t \in DirectTables :
        /\ Begin(th, [op |-> "Load", tbl |-> t, api |-> "-", req |-> NoReq])
        /\ Enter(th, "Load_Lock", t, "-", "idle")
        /\ UNCHANGED <<APIStats, heap, lock, rv, snap, histogram, workload, pre, snapSeen>>
    /\ UNCHANGED <<connVars, dirVars>>

\* line 138
LoadLock(th) ==
    /\ pc[th] = "Load_Lock"
    /\ Lock(th, frame[th].tbl)
    /\ pc' = [pc EXCEPT ![th] = "Load_Body"]
    /\ UNCHANGED <<APIStats, heap, frame, cur, rv, snap, histogram, ncalls, workload,
                   pre, eff, obs, snapSeen>>
    /\ UNCHANGED <<connVars, dirVars>>

\* line 140: the return value is evaluated under the lock
LoadBody(th) ==
    /\ pc[th] = "Load_Body"
    /\ rv' = [rv EXCEPT ![th] = LoadResult(APIStats[frame[th].tbl])]
    /\ pc' = [pc EXCEPT ![th] = "Load_Unlock"]
    /\ UNCHANGED <<APIStats, heap, lock, frame, cur, snap, histogram, ncalls, workload,
                   pre, eff, obs, snapSeen>>
    /\ UNCHANGED <<connVars, dirVars>>

\* line 139, run on return
LoadUnlock(th) ==
    /\ pc[th] = "Load_Unlock"
    /\ Unlock(frame[th].tbl)
    /\ Leave(th)
    /\ rv' = [rv EXCEPT ![th] = IF frame[th].ret = "idle" THEN "-" ELSE @]
    /\ UNCHANGED <<APIStats, heap, histogram, ncalls, workload, pre>>
    /\ UNCHANGED <<connVars, dirVars>>

(***************************************************************************)
(* HTTPStats.toServerHTTPStats (lines 152-167).                            *)
(***************************************************************************)
\* the counts a reader of the returned structure finds in it now
Visible(s) ==
    [CurrentS3Requests |-> Deref(s.CurrentS3Requests),
     TotalS3Requests |-> Deref(s.TotalS3Requests),
     TotalS3Errors |-> Deref(s.TotalS3Errors)]

\* lines 153-156: call currentS3Requests.Load()
CallToServerHTTPStats(th) ==
    /\ Begin(th, [op |-> "toServerHTTPStats", tbl |-> "-", api |-> "-", req |-> NoReq])
    /\ Enter(th, "Load_Lock", "currentS3Requests", "-", "TS_159")
    /\ UNCHANGED <<APIStats, heap, lock, rv, snap, histogram, workload, pre, snapSeen>>
    /\ UNCHANGED <<connVars, dirVars>>

\* lines 155-160: store the first result, call totalS3Requests.Load()
toServerHTTPStats_159(th) ==
    /\ pc[th] = "TS_159"
    /\ snap' = [snap EXCEPT ![th].CurrentS3Requests = rv[th]]
    /\ Enter(th, "Load_Lock", "totalS3Requests", "-", "TS_163")
    /\ rv' = [rv EXCEPT ![th] = "-"]
    /\ UNCHANGED <<APIStats, heap, lock, cur, histogram, ncalls, workload, pre, eff, obs,
                   snapSeen>>
    /\ UNCHANGED <<connVars, dirVars>>

\* lines 159-164: store the second result, call totalS3Errors.Load()
toServerHTTPStats_163(th) ==
    /\ pc[th] = "TS_163"
    /\ snap' = [snap EXCEPT ![th].TotalS3Requests = rv[th]]
    /\ Enter(th, "Load_Lock", "totalS3Errors", "-", "TS_166")
    /\ rv' = [rv EXCEPT ![th] = "-"]
    /\ UNCHANGED <<APIStats, heap, lock, cur, histogram, ncalls, workload, pre, eff, obs,
                   snapSeen>>
    /\ UNCHANGED <<connVars, dirVars>>

\* lines 163-166: store the third result and return serverStats
toServerHTTPStats_166(th) ==
    /\ pc[th] = "TS_166"
    /\ LET s == [snap[th] EXCEPT !.TotalS3Errors = rv[th]]
       IN  /\ snap' = [snap EXCEPT ![th] = s]
           /\ snapSeen' = [snapSeen EXCEPT ![th] = Visible(s)]
    /\ pc' = [pc EXCEPT ![th] = "TS_ret"]
    /\ rv' = [rv EXCEPT ![th] = "-"]
    /\ UNCHANGED <<APIStats, heap, lock, frame, cur, histogram, ncalls, workload, pre,
                   eff, obs>>
    /\ UNCHANGED <<connVars, dirVars>>

\* the caller is done with the ServerHTTPStats it was given
ReleaseSnapshot(th) ==
    /\ pc[th] = "TS_ret"
    /\ Finish(th)
    /\ UNCHANGED <<APIStats, heap, lock, frame, rv, histogram, ncalls, workload, pre>>
    /\ UNCHANGED <<connVars, dirVars>>

(***************************************************************************)
(* HTTPStats.updateStats (lines 170-185).                                  *)
(***************************************************************************)
\* line 174
countsAsRequest(r) == r.isS3 /\ ~HasSuffix(r.path, prometheusMetricsPath)

\* a request that got no response counted as an error
countsAsErrorZero(r) == ~successReq(r.status)

\* line 176
countsAsError(r) == ~successReq(r.status) /\ r.status # 0

\* only the requests that are counted are observed
isObservedIfCounted(r) == countsAsRequest(r) /\ r.method = "GET"

\* line 181
isObserved(r) == r.isS3 /\ r.method = "GET"

\* httpRequestsDuration.With({"api": api}).Observe(secs)
Observe(h, api, secs) ==
    LET k == <<api, secs>>
    IN  [x \in (DOMAIN h) \cup {k} |->
            IF x = k THEN (IF k \in DOMAIN h THEN h[k] ELSE 0) + 1 ELSE h[x]]

\* a request counted in the table of errors
RequestsTableWrong == "totalS3Errors"

\* line 175: the table a counted request is counted in
RequestsTable == "totalS3Requests"

\* lines 172-175: classify the request and call totalS3Requests.Inc(api)
CallUpdateStats(th) ==
    \E w \in workload :
        /\ Begin(th, [op |-> "updateStats", tbl |-> "-", api |-> w[1], req |-> w[2]])
        /\ IF countsAsRequest(w[2])
           THEN Enter(th, "Inc_Lock", RequestsTable, w[1], "US_176")
           ELSE /\ pc' = [pc EXCEPT ![th] = "US_181"]
                /\ UNCHANGED frame
        /\ UNCHANGED <<APIStats, heap, lock, rv, snap, histogram, workload, pre, snapSeen>>
    /\ UNCHANGED <<connVars, dirVars>>

\* lines 176-178: call totalS3Errors.Inc(api) for a failed request
updateStats_176(th) ==
    /\ pc[th] = "US_176"
    /\ IF countsAsError(cur[th].req)
       THEN Enter(th, "Inc_Lock", "totalS3Errors", cur[th].api, "US_181")
       ELSE /\ pc' = [pc EXCEPT ![th] = "US_181"]
            /\ UNCHANGED frame
    /\ UNCHANGED <<APIStats, heap, lock, cur, rv, snap, histogram, ncalls, workload,
                   pre, eff, obs, snapSeen>>
    /\ UNCHANGED <<connVars, dirVars>>

\* lines 181-185: record the duration of an S3 GET, and return
updateStats_181(th) ==
    /\ pc[th] = "US_181"
    /\ IF isObserved(cur[th].req)
       THEN /\ histogram' = Observe(histogram, cur[th].api, cur[th].req.secs)
            /\ obs' = [obs EXCEPT ![th] =
                         Append(@, [api |-> cur[th].api, secs |-> cur[th].req.secs])]
       ELSE UNCHANGED <<histogram, obs>>
    /\ pc' = [pc EXCEPT ![th] = "US_ret"]
    /\ UNCHANGED <<APIStats, heap, lock, frame, cur, rv, snap, ncalls, workload, pre,
                   eff, snapSeen>>
    /\ UNCHANGED <<connVars, dirVars>>

\* updateStats has returned to the request handler
updateStatsReturn(th) ==
    /\ pc[th] = "US_ret"
    /\ Finish(th)
    /\ UNCHANGED <<APIStats, heap, lock, frame, rv, histogram, ncalls, workload, pre>>
    /\ UNCHANGED <<connVars, dirVars>>

(***************************************************************************)
(* ConnStats (lines 38-98): four atomic.Uint64 counters.  The counters are *)
(* 64 bits wide in the program; the model keeps them CounterBits wide, and *)
(* the int argument of the increments as wide as them.                     *)
(***************************************************************************)
\* width of a counter, in bits
CounterBits == 4
\* number of increments made in all
MaxIncs == 2
\* number of toServerConnStats calls made in all
MaxSnaps == 1

\* 2^CounterBits: one more than the largest counter value
Modulus == 2 ^ CounterBits

\* the largest int
MaxInt == 2 ^ (CounterBits - 1) - 1

Counters == {"totalInputBytes", "totalOutputBytes", "s3InputBytes", "s3OutputBytes"}

\* byte counts passed to the increments
ByteCounts == {-1, 0, 1, MaxInt}


NoInc == [n |-> 0, ctr |-> "-", val |-> 0]

\* a ServerConnStats none of whose fields is set; its fields are named after
\* the counters they are read from
NoServerConnStats == [c \in Counters |-> "-"]

\* increments made so far, by all threads
RECURSIVE IncsUpTo(_)
IncsUpTo(th) == IF th = 0 THEN 0 ELSE incs[th].n + IncsUpTo(th - 1)
TotalIncs == IncsUpTo(NThreads)

\* th is not inside a call
ConnIdle(th) == cpc[th] \in {"idle", "ret"}

\* newConnStats(): &ConnStats{}
InitConnStats ==
    /\ connStats = [c \in Counters |-> 0]
    /\ incs = [th \in Threads |-> NoInc]
    /\ cpc = [th \in Threads |-> "idle"]
    /\ csnap = [th \in Threads |-> NoServerConnStats]
    /\ nsnaps = 0
    /\ cstart = [th \in Threads |-> NoServerConnStats]
    /\ cend = [th \in Threads |-> NoServerConnStats]
    /\ held = {[c \in Counters |-> 0]}
    /\ clean = TRUE

\* uint64(n) of an int n
ToUint(n) == n % Modulus

\* an Add that stores its argument
AtomicAddStore(old, delta) == delta

\* atomic.Uint64.Add: one indivisible read-modify-write, wrapping at the width
AtomicAdd(old, delta) == (old + delta) % Modulus

\* an increment that is also added to the total of input bytes
AddToTotalToo(th, c, n) ==
    /\ connStats' = [d \in Counters |->
                        IF d \in {c, "totalInputBytes"}
                        THEN AtomicAdd(connStats[d], ToUint(n)) ELSE connStats[d]]
    /\ incs' = [incs EXCEPT ![th] = [n |-> @.n + 1, ctr |-> c, val |-> n]]
    /\ held' = held \cup {connStats'}
    /\ clean' = (clean /\ n >= 0 /\ connStats[c] + n < Modulus)
    /\ UNCHANGED <<cpc, csnap, nsnaps, cstart, cend>>
    /\ UNCHANGED <<httpVars, dirVars>>

\* s.<c>.Add(uint64(n)), by th
Add(th, c, n) ==
    /\ connStats' = [connStats EXCEPT ![c] = AtomicAdd(@, ToUint(n))]
    /\ incs' = [incs EXCEPT ![th] = [n |-> @.n + 1, ctr |-> c, val |-> n]]
    /\ held' = held \cup {connStats'}
    /\ clean' = (clean /\ n >= 0 /\ connStats[c] + n < Modulus)
    /\ UNCHANGED <<cpc, csnap, nsnaps, cstart, cend>>
    /\ UNCHANGED <<httpVars, dirVars>>

\* lines 46-48
incInputBytes(th) ==
    \E n \in ByteCounts :
        /\ ConnIdle(th)
        /\ TotalIncs < MaxIncs
        /\ Add(th, "totalInputBytes", n)

\* lines 51-53
incOutputBytes(th) ==
    \E n \in ByteCounts :
        /\ ConnIdle(th)
        /\ TotalIncs < MaxIncs
        /\ Add(th, "totalOutputBytes", n)

\* lines 66-68
incS3InputBytes(th) ==
    \E n \in ByteCounts :
        /\ ConnIdle(th)
        /\ TotalIncs < MaxIncs
        /\ Add(th, "s3InputBytes", n)

\* lines 71-73
incS3OutputBytes(th) ==
    \E n \in ByteCounts :
        /\ ConnIdle(th)
        /\ TotalIncs < MaxIncs
        /\ Add(th, "s3OutputBytes", n)

\* a load that reads nothing
AtomicLoadZero(c) == 0

\* atomic.Uint64.Load, in getTotalInputBytes (lines 56-58), getTotalOutputBytes
\* (61-63), getS3InputBytes (76-78) and getS3OutputBytes (81-83)
AtomicLoad(c) == connStats[c]

\* th reads counter c into its field of the ServerConnStats and moves on
LoadField(th, c, next) ==
    /\ csnap' = [csnap EXCEPT ![th][c] = AtomicLoad(c)]
    /\ cpc' = [cpc EXCEPT ![th] = next]
    /\ UNCHANGED <<connStats, nsnaps, incs, cstart, cend, held, clean>>
    /\ UNCHANGED <<httpVars, dirVars>>

\* line 86: th calls toServerConnStats
CallToServerConnStats(th) ==
    /\ ConnIdle(th)
    /\ nsnaps < MaxSnaps
    /\ nsnaps' = nsnaps + 1
    /\ cpc' = [cpc EXCEPT ![th] = "88"]
    /\ csnap' = [csnap EXCEPT ![th] = NoServerConnStats]
    /\ cstart' = [cstart EXCEPT ![th] = connStats]
    /\ cend' = [cend EXCEPT ![th] = NoServerConnStats]
    /\ UNCHANGED <<connStats, incs, held, clean>>
    /\ UNCHANGED <<httpVars, dirVars>>

\* line 88
toServerConnStats_88(th) ==
    /\ cpc[th] = "88"
    /\ LoadField(th, "totalInputBytes", "89")

\* line 89
toServerConnStats_89(th) ==
    /\ cpc[th] = "89"
    /\ LoadField(th, "totalOutputBytes", "90")

\* line 90
toServerConnStats_90(th) ==
    /\ cpc[th] = "90"
    /\ LoadField(th, "s3InputBytes", "91")

\* line 91
toServerConnStats_91(th) ==
    /\ cpc[th] = "91"
    /\ LoadField(th, "s3OutputBytes", "92")


\* lines 87-93: the ServerConnStats is returned
toServerConnStats_Return(th) ==
    /\ cpc[th] = "92"
    /\ cpc' = [cpc EXCEPT ![th] = "ret"]
    /\ cend' = [cend EXCEPT ![th] = connStats]
    /\ UNCHANGED <<connStats, csnap, nsnaps, incs, cstart, held, clean>>
    /\ UNCHANGED <<httpVars, dirVars>>

(***************************************************************************)
(* readDirN (posix-list-dir_other.go:21-94): one call, against a directory *)
(* whose content, and the outcome of opening it, are the environment's.    *)
(* A path is the sequence of its segments; a name is a sequence of         *)
(* characters.                                                             *)
(***************************************************************************)
\* number of entries of the largest directory listed
MaxDirLen == 3

\* line 37
maxEntriesDefault == 1000

\* readDir (lines 16-18) is readDirN with this count
readDirCount == -1

\* SlashSeparator, declared outside posix-list-dir_other.go
SlashSeparator == "/"

\* the error readDirN returns for a path that is not there
errFileNotFound == "errFileNotFound"

\* what an entry is: a directory, a regular file, something else (a device,
\* a socket), or a symbolic link to one of these or to nothing
Kinds == {"dir", "file", "other", "link->dir", "link->file", "link->other",
          "link->missing"}

\* outcomes of os.Open other than success
OpenErrnos == {"ENOENT", "ENOTDIR", "EACCES"}

PlainPath == <<"data", "bucket">>
DirPaths == {PlainPath, <<"data", "not a directory">>}

\* the name of the i-th entry of the directory
Name(i) == [j \in 1..i |-> "x"]

\* the directories listed
DirLists == UNION {[1..n -> Kinds] : n \in 0..MaxDirLen}

\* the counts asked for: all, none, fewer and more than there are, and the
\* batch size and beyond
Counts == (-1 .. MaxDirLen + 1) \cup {maxEntriesDefault, maxEntriesDefault + 1}


InitReadDirN ==
    /\ openErr \in {"ok"} \cup OpenErrnos
    /\ dirPath \in IF openErr = "ok" THEN {PlainPath} ELSE DirPaths
    /\ dirList \in IF openErr = "ok" THEN DirLists ELSE {<<>>}
    /\ count \in Counts
    /\ dpc = "open"
    /\ dOpen = FALSE
    /\ dpos = 0
    /\ maxEntries = 0
    /\ done = FALSE
    /\ remaining = 0
    /\ fis = <<>>
    /\ fidx = 1
    /\ entries = <<>>
    /\ rentries = <<>>
    /\ rerr = "nil"
    /\ logged = <<>>
    /\ nreads = 0
    /\ readErr = "nil"
    /\ asked = 0
    /\ rawLen = 0

\* syscall.Errno.Error()
ErrnoText(errno) ==
    CASE errno = "ENOENT" -> "no such file or directory"
      [] errno = "ENOTDIR" -> "not a directory"
      [] errno = "EACCES" -> "permission denied"
      [] errno = "EIO" -> "input/output error"

\* (*os.PathError).Error(): op + " " + path + ": " + err
ErrorText(op, path, errno) == <<op>> \o path \o <<ErrnoText(errno)>>

\* os.IsNotExist(err)
IsNotExist(errno) == errno = "ENOENT"

\* strings.Contains(text, sub), for a sub that is one segment
Contains(text, sub) == \E i \in DOMAIN text : text[i] = sub

\* every failure to open is reported as errFileNotFound
OpenErrorAlwaysNotFound(path, errno) == errFileNotFound

\* lines 23-34: the error returned when os.Open fails with errno
OpenError(path, errno) ==
    IF IsNotExist(errno) THEN errFileNotFound
    ELSE IF Contains(ErrorText("open", path, errno), "not a directory")
         THEN errFileNotFound
         ELSE errno

\* the cap applies to a count of 0 as well
BatchSizeZeroCapped(c) == IF c >= 0 /\ c < maxEntriesDefault THEN c ELSE maxEntriesDefault

\* lines 37-40
BatchSize(c) == IF c > 0 /\ c < maxEntriesDefault THEN c ELSE maxEntriesDefault

\* fi.Mode()&os.ModeSymlink == os.ModeSymlink
IsSymlink(kind) == kind \in {"link->dir", "link->file", "link->other", "link->missing"}

\* os.Stat of a symbolic link: the kind of its target, or "error"
StatKind(kind) ==
    CASE kind = "link->dir" -> "dir"
      [] kind = "link->file" -> "file"
      [] kind = "link->other" -> "other"
      [] kind = "link->missing" -> "error"

\* path.Join(dirPath, name)
PathJoin(path, name) == Append(path, name)

\* every entry is listed as a directory
ListedAllDirs(kind, name) == <<Append(name, SlashSeparator)>>

\* lines 72-76 and 82-87: what is appended for an entry of this (resolved) kind
Listed(kind, name) ==
    IF kind = "dir" THEN <<Append(name, SlashSeparator)>>
    ELSE IF kind = "file" THEN <<name>>
    ELSE <<>>

\* a batch that is never cut
TruncateNever(batch, c, rem) == batch

\* lines 54-59: the batch cut to the remaining budget
Truncate(batch, c, rem) ==
    IF c > 0 /\ rem <= Len(batch) THEN SubSeq(batch, 1, rem) ELSE batch

\* lines 54-59: whether this batch is the last one
Truncates(batch, c, rem) == c > 0 /\ rem <= Len(batch)

Min(a, b) == IF a < b THEN a ELSE b

\* a return that hands back no entries
ReturnNoEntries(es, err) ==
    /\ rentries' = <<>>
    /\ rerr' = err
    /\ dOpen' = FALSE
    /\ dpc' = "returned"

\* return: the deferred d.Close() runs
Return(es, err) ==
    /\ rentries' = es
    /\ rerr' = err
    /\ dOpen' = FALSE
    /\ dpc' = "returned"

\* lines 22-34: os.Open fails
readDirN_OpenFails ==
    /\ dpc = "open"
    /\ openErr # "ok"
    /\ rentries' = <<>>
    /\ rerr' = OpenError(dirPath, openErr)
    /\ dpc' = "returned"
    /\ UNCHANGED <<dirPath, count, openErr, dirList, dOpen, dpos, maxEntries, done,
                   remaining, fis, fidx, entries, logged, nreads, readErr, asked, rawLen>>
    /\ UNCHANGED <<httpVars, connVars>>

\* lines 22, 35-43: os.Open succeeds
readDirN_Open ==
    /\ dpc = "open"
    /\ openErr = "ok"
    /\ dOpen' = TRUE
    /\ maxEntries' = BatchSize(count)
    /\ done' = FALSE
    /\ remaining' = count
    /\ dpc' = "loop"
    /\ UNCHANGED <<dirPath, count, openErr, dirList, dpos, fis, fidx, entries, rentries,
                   rerr, logged, nreads, readErr, asked, rawLen>>
    /\ UNCHANGED <<httpVars, connVars>>

\* lines 45-59: Readdir returns a batch of k entries, which is cut to the budget
readDirN_Readdir ==
    /\ dpc = "loop"
    /\ ~done
    /\ \E k \in 1..Min(maxEntries, Len(dirList) - dpos) :
        LET batch == [i \in 1..k |-> dpos + i]
            cut == Truncate(batch, count, remaining)
        IN  /\ dpos' = dpos + k
            /\ rawLen' = k
            /\ fis' = cut
            /\ done' = Truncates(batch, count, remaining)
            /\ dpc' = IF cut = <<>> THEN "loop" ELSE "range"
    /\ fidx' = 1
    /\ nreads' = nreads + 1
    /\ asked' = maxEntries
    /\ UNCHANGED <<dirPath, count, openErr, dirList, dOpen, maxEntries, remaining,
                   entries, rentries, rerr, logged, readErr>>
    /\ UNCHANGED <<httpVars, connVars>>

\* the end of the directory taken for a failure
readDirN_ReaddirEOFAsError ==
    /\ dpc = "loop"
    /\ ~done
    /\ dpos = Len(dirList)
    /\ Return(<<>>, "EOF")
    /\ nreads' = nreads + 1
    /\ asked' = maxEntries
    /\ UNCHANGED <<dirPath, count, openErr, dirList, dpos, maxEntries, done, remaining,
                   fis, fidx, entries, logged, readErr, rawLen>>
    /\ UNCHANGED <<httpVars, connVars>>

\* lines 47-51, 93: Readdir reports the end of the directory
readDirN_ReaddirEOF ==
    /\ dpc = "loop"
    /\ ~done
    /\ dpos = Len(dirList)
    /\ Return(entries, "nil")
    /\ nreads' = nreads + 1
    /\ asked' = maxEntries
    /\ UNCHANGED <<dirPath, count, openErr, dirList, dpos, maxEntries, done, remaining,
                   fis, fidx, entries, logged, readErr, rawLen>>
    /\ UNCHANGED <<httpVars, connVars>>

\* lines 47-52: Readdir fails
readDirN_ReaddirFails ==
    /\ dpc = "loop"
    /\ ~done
    /\ readErr' = "EIO"
    /\ Return(<<>>, readErr')
    /\ nreads' = nreads + 1
    /\ asked' = maxEntries
    /\ UNCHANGED <<dirPath, count, openErr, dirList, dpos, maxEntries, done, remaining,
                   fis, fidx, entries, logged, rawLen>>
    /\ UNCHANGED <<httpVars, connVars>>

\* lines 45, 93: the loop ends after a batch that was cut
readDirN_Done ==
    /\ dpc = "loop"
    /\ done
    /\ Return(entries, "nil")
    /\ UNCHANGED <<dirPath, count, openErr, dirList, dpos, maxEntries, done, remaining,
                   fis, fidx, entries, logged, nreads, readErr, asked, rawLen>>
    /\ UNCHANGED <<httpVars, connVars>>

\* an entry that costs nothing
SpendNothing(c, rem) == rem

\* lines 77-79 and 88-90: an entry that was examined takes one off the budget
Spend(c, rem) == IF c > 0 THEN rem - 1 ELSE rem

\* the range loop moves to the next element, or the batch is finished
NextEntry ==
    /\ fidx' = fidx + 1
    /\ dpc' = IF fidx + 1 > Len(fis) THEN "loop" ELSE "range"

\* a symbolic link that os.Stat cannot resolve ends the listing
readDirN_SymlinkAborts ==
    /\ dpc = "range"
    /\ LET kind == dirList[fis[fidx]]
       IN  /\ IsSymlink(kind)
           /\ StatKind(kind) = "error"
    /\ logged' = Append(logged, [path |-> PathJoin(dirPath, Name(fis[fidx])),
                                 err |-> "ENOENT"])
    /\ Return(entries, "nil")
    /\ UNCHANGED <<dirPath, count, openErr, dirList, dpos, maxEntries, done,
                   remaining, fis, fidx, entries, nreads, readErr, asked, rawLen>>
    /\ UNCHANGED <<httpVars, connVars>>

\* lines 62-70: a symbolic link that os.Stat cannot resolve is logged and skipped
readDirN_SymlinkFails ==
    /\ dpc = "range"
    /\ LET kind == dirList[fis[fidx]]
       IN  /\ IsSymlink(kind)
           /\ StatKind(kind) = "error"
    /\ logged' = Append(logged, [path |-> PathJoin(dirPath, Name(fis[fidx])),
                                 err |-> "ENOENT"])
    /\ NextEntry
    /\ UNCHANGED <<dirPath, count, openErr, dirList, dOpen, dpos, maxEntries, done,
                   remaining, fis, entries, rentries, rerr, nreads, readErr, asked, rawLen>>
    /\ UNCHANGED <<httpVars, connVars>>

\* lines 62-64, 71-80: a symbolic link is listed as what it points to
readDirN_Symlink ==
    /\ dpc = "range"
    /\ LET kind == dirList[fis[fidx]]
       IN  /\ IsSymlink(kind)
           /\ StatKind(kind) # "error"
           /\ entries' = entries \o Listed(StatKind(kind), Name(fis[fidx]))
    /\ remaining' = Spend(count, remaining)
    /\ NextEntry
    /\ UNCHANGED <<dirPath, count, openErr, dirList, dOpen, dpos, maxEntries, done,
                   fis, rentries, rerr, logged, nreads, readErr, asked, rawLen>>
    /\ UNCHANGED <<httpVars, connVars>>

\* lines 82-90: an entry that is not a symbolic link
readDirN_Entry ==
    /\ dpc = "range"
    /\ LET kind == dirList[fis[fidx]]
       IN  /\ ~IsSymlink(kind)
           /\ entries' = entries \o Listed(kind, Name(fis[fidx]))
    /\ remaining' = Spend(count, remaining)
    /\ NextEntry
    /\ UNCHANGED <<dirPath, count, openErr, dirList, dOpen, dpos, maxEntries, done,
                   fis, rentries, rerr, logged, nreads, readErr, asked, rawLen>>
    /\ UNCHANGED <<httpVars, connVars>>

(***************************************************************************)
(* Specifications.                                                         *)
(***************************************************************************)
\* a part that a specification does not run stays as constructed
IdleHTTP == Fresh /\ Quiescent /\ workload = {}
IdleDir == openErr = "ENOENT" /\ dirPath = PlainPath /\ count = -1 /\ InitReadDirN

\* the tables after one successful GetObject request was served:
\* currentS3Requests.Inc, updateStats with status 200, currentS3Requests.Dec
ServedOne ==
    /\ APIStats = [t \in Tables |-> IF t = "totalS3Errors" THEN NilRef ELSE t]
    /\ heap = [t \in Tables |->
                 CASE t = "currentS3Requests" ->
                          DecMap(IncMap(EmptyMap, "GetObject"), "GetObject")
                   [] t = "totalS3Requests" -> IncMap(EmptyMap, "GetObject")
                   [] t = "totalS3Errors" -> EmptyMap]
    /\ histogram = Observe([k \in {} |-> 0], "GetObject", 50)

\* one HTTPStats under concurrent callers, new or having served a request
InitHTTP ==
    /\ Fresh \/ ServedOne
    /\ Quiescent
    /\ workload = WorkloadSmall
    /\ InitConnStats
    /\ IdleDir

NextHTTP ==
    \E th \in Threads :
        \/ CallInc(th) \/ IncLock(th) \/ IncBody(th) \/ IncStore(th) \/ IncUnlock(th)
        \/ CallDec(th) \/ DecLock(th) \/ DecBody(th) \/ DecUnlock(th)
        \/ CallLoad(th) \/ LoadLock(th) \/ LoadBody(th) \/ LoadUnlock(th)
        \/ CallToServerHTTPStats(th) \/ toServerHTTPStats_159(th)
        \/ toServerHTTPStats_163(th) \/ toServerHTTPStats_166(th)
        \/ ReleaseSnapshot(th)
        \/ CallUpdateStats(th) \/ updateStats_176(th) \/ updateStats_181(th)
        \/ updateStatsReturn(th)

SpecHTTP == InitHTTP /\ [][NextHTTP]_vars

\* a step of a call th is in (not the start of a new call)
Step(th) ==
    \/ IncLock(th) \/ IncBody(th) \/ IncStore(th) \/ IncUnlock(th)
    \/ DecLock(th) \/ DecBody(th) \/ DecUnlock(th)
    \/ LoadLock(th) \/ LoadBody(th) \/ LoadUnlock(th)
    \/ toServerHTTPStats_159(th) \/ toServerHTTPStats_163(th)
    \/ toServerHTTPStats_166(th)
    \/ updateStats_176(th) \/ updateStats_181(th)

\* The scheduler runs every goroutine that stays able to run: a step of a
\* call that stays possible (a Lock of a mutex that stays free included) is
\* taken.
FairSpecHTTP ==
    /\ SpecHTTP
    /\ \A th \in Threads : WF_vars(Step(th))

\* updateStats alone, called concurrently with one request and api per run
InitUpdate ==
    /\ Fresh
    /\ Quiescent
    /\ \E w \in WorkloadAll : workload = {w}
    /\ InitConnStats
    /\ IdleDir

NextUpdate ==
    \E th \in Threads :
        \/ CallUpdateStats(th) \/ IncLock(th) \/ IncBody(th) \/ IncStore(th) \/ IncUnlock(th)
        \/ updateStats_176(th) \/ updateStats_181(th) \/ updateStatsReturn(th)

SpecUpdate == InitUpdate /\ [][NextUpdate]_vars

\* Inc alone, called concurrently on a table whose map was never made, or on
\* the tables as a served request left them
InitInc ==
    /\ Fresh \/ ServedOne
    /\ Quiescent
    /\ workload = {}
    /\ InitConnStats
    /\ IdleDir

NextInc ==
    \E th \in Threads :
        \/ CallInc(th) \/ IncLock(th) \/ IncBody(th) \/ IncStore(th) \/ IncUnlock(th)

SpecInc == InitInc /\ [][NextInc]_vars

\* request handlers alone, running concurrently
NextHandlers ==
    \E th \in Threads :
        \/ CallHandler(th)
        \/ IncLock(th) \/ IncBody(th) \/ IncStore(th) \/ IncUnlock(th)
        \/ HandlerComplete(th)
        \/ DecLock(th) \/ DecBody(th) \/ DecUnlock(th)

SpecHandlers == InitInc /\ [][NextHandlers]_vars

\* updateStats alone, called concurrently with a mix of requests, on a new
\* HTTPStats or one that has served a request
SpecUpdateMixed == InitHTTP /\ [][NextUpdate]_vars

\* one ConnStats under concurrent callers
InitConn ==
    /\ InitConnStats
    /\ IdleHTTP
    /\ IdleDir

NextConn ==
    \E th \in Threads :
        \/ incInputBytes(th) \/ incOutputBytes(th)
        \/ incS3InputBytes(th) \/ incS3OutputBytes(th)

SpecConn == InitConn /\ [][NextConn]_vars

\* one ConnStats read by toServerConnStats while byte counts that are not
\* negative are added to it
NextSnap ==
    \E th \in Threads :
        \/ incInputBytes(th) /\ incs'[th].val >= 0
        \/ incOutputBytes(th) /\ incs'[th].val >= 0
        \/ incS3InputBytes(th) /\ incs'[th].val >= 0
        \/ incS3OutputBytes(th) /\ incs'[th].val >= 0
        \/ CallToServerConnStats(th)
        \/ toServerConnStats_88(th) \/ toServerConnStats_89(th)
        \/ toServerConnStats_90(th) \/ toServerConnStats_91(th)
        \/ toServerConnStats_Return(th)

SpecSnap == InitConn /\ [][NextSnap]_vars

\* one call of readDirN
InitDir ==
    /\ InitReadDirN
    /\ IdleHTTP
    /\ InitConnStats

NextDir ==
    \/ readDirN_OpenFails \/ readDirN_Open
    \/ readDirN_Readdir \/ readDirN_ReaddirEOF \/ readDirN_ReaddirFails
    \/ readDirN_Done
    \/ readDirN_SymlinkFails \/ readDirN_Symlink \/ readDirN_Entry

SpecDir == InitDir /\ [][NextDir]_vars

\* the goroutine that called readDirN keeps running until the call returns
FairSpecDir == SpecDir /\ WF_vars(NextDir)

(***************************************************************************)
(* Properties.                                                             *)
(***************************************************************************)
\* C1: a ServerHTTPStats returned by toServerHTTPStats keeps showing the
\* counts it showed when it was returned, whatever Inc and Dec do afterwards.
C1_SnapshotIndependent ==
    \A th \in Threads : pc[th] = "TS_ret" => Visible(snap[th]) = snapSeen[th]

\* th is about to leave Dec, having found no entry for its api or a count of 0
DecOnZero(th) ==
    /\ pc[th] = "Dec_Unlock"
    /\ MapGet(pre[th].m, frame[th].api) = 0

\* C2: every stored count is >= 0 in every state, and a Dec that finds its
\* key at 0 or absent (in a map, or in a table whose map was never made)
\* leaves the table as it was: same map reference, same keys, same counts.
C2_DecNeverNegative ==
    /\ \A t \in Tables : \A a \in DOMAIN heap[t] : heap[t][a] >= 0
    /\ \A th \in Threads :
          DecOnZero(th) =>
              /\ APIStats[frame[th].tbl] = pre[th].ref
              /\ TableMap(frame[th].tbl) = pre[th].m

\* a Dec has run on a key that is present with count 0
C2_Witness ==
    \E th \in Threads :
        /\ DecOnZero(th)
        /\ frame[th].api \in DOMAIN pre[th].m

\* th is inside a call that has not returned yet
Running(th) == pc[th] \notin {"idle", "TS_ret", "US_ret"}

\* the table locks th holds
LocksHeld(th) == {t \in Tables : lock[t] = th}

\* th waits for a lock that another thread holds
Contended(th) ==
    /\ pc[th] \in {"Inc_Lock", "Dec_Lock", "Load_Lock"}
    /\ lock[frame[th].tbl] \notin {0, th}

\* C10: no thread ever holds more than one table lock; whenever calls are
\* running, one of them can take a step (no deadlock); and under fair
\* scheduling every call that is running returns.
C10_NoDeadlock ==
    /\ [](\A th \in Threads : Cardinality(LocksHeld(th)) <= 1)
    /\ []((\E th \in Threads : Running(th)) =>
             \E th \in Threads : Running(th) /\ ENABLED Step(th))
    /\ \A th \in Threads : Running(th) ~> ~Running(th)

\* a thread waits for a table lock while another thread holds it
C10_Witness == \E th \in Threads : Contended(th)

\* C4: when updateStats returns, its own effect on the tables is: +1 on
\* totalS3Requests[api] iff the request is S3-class and its path does not end
\* with the metrics path; +1 on totalS3Errors[api] iff it was so counted and the
\* status is non-zero and outside [200,300); nothing else.
C4_UpdateStatsCounts ==
    \A th \in Threads :
        pc[th] = "US_ret" =>
            LET r == cur[th].req
                counted == r.isS3 /\ ~HasSuffix(r.path, prometheusMetricsPath)
                failed == r.status # 0 /\ (r.status < 200 \/ r.status >= 300)
            IN  eff[th] =
                    [t \in Tables |-> [a \in APIs |->
                        IF /\ a = cur[th].api
                           /\ \/ t = "totalS3Requests" /\ counted
                              \/ t = "totalS3Errors" /\ counted /\ failed
                        THEN 1 ELSE 0]]

\* updateStats has returned for a counted request answered 500, after
\* incrementing both totals
C4_Witness ==
    \E th \in Threads :
        /\ pc[th] = "US_ret"
        /\ cur[th].req.status = 500
        /\ eff[th]["totalS3Requests"][cur[th].api] = 1
        /\ eff[th]["totalS3Errors"][cur[th].api] = 1

\* every thread has made one increment, of counter c by B
EachIncrementedOnce(c, B) ==
    \A th \in Threads : incs[th] = [n |-> 1, ctr |-> c, val |-> B]

\* C3 as claimed: after T threads each incremented the same counter of a new
\* ConnStats once by B, the counter reads T*B.
C3_ExactlyTB ==
    \A c \in Counters, B \in ByteCounts :
        EachIncrementedOnce(c, B) => connStats[c] = NThreads * B

\* C3 as amended: the counter reads T * uint64(B) modulo 2^width - no update
\* is lost - which is T*B when B >= 0 and T*B fits the counter.
C3_NoLostUpdate ==
    \A c \in Counters, B \in ByteCounts :
        EachIncrementedOnce(c, B) =>
            /\ connStats[c] = (NThreads * ToUint(B)) % Modulus
            /\ (B >= 0 /\ NThreads * B < Modulus) => connStats[c] = NThreads * B

\* every thread has added 1 to totalInputBytes
C3_Witness == EachIncrementedOnce("totalInputBytes", 1)

\* C5 as claimed: a call with count >= 0 returns at most count names.
C5_AtMostCount ==
    (dpc = "returned" /\ count >= 0) => Len(rentries) <= count

\* the name an entry of kind k is listed under, if any
NameFor(k, name) ==
    IF k \in {"dir", "link->dir"} THEN <<Append(name, SlashSeparator)>>
    ELSE IF k \in {"file", "link->file"} THEN <<name>>
    ELSE <<>>

\* the log entry an entry of kind k leaves, if any
LogFor(k, name) ==
    IF k = "link->missing"
    THEN <<[path |-> Append(dirPath, name), err |-> "ENOENT"]>>
    ELSE <<>>

\* the names, and the log, of the first n entries of the directory
RECURSIVE NamesOf(_)
NamesOf(n) == IF n = 0 THEN <<>> ELSE NamesOf(n - 1) \o NameFor(dirList[n], Name(n))

RECURSIVE LogOf(_)
LogOf(n) == IF n = 0 THEN <<>> ELSE LogOf(n - 1) \o LogFor(dirList[n], Name(n))

\* entries of the directory the range loop has dealt with
Processed == dpos - rawLen + fidx - 1

\* the directory holds regular files and directories only
OnlyFilesAndDirs == \A i \in DOMAIN dirList : dirList[i] \in {"dir", "file"}

\* C6: readDir of a directory of N regular files and M subdirectories, when it
\* succeeds, returns one name per entry, N+M in all, in the order read:
\* the name followed by the separator for a subdirectory, the bare name for a
\* file - whatever batches Readdir returned.
C6_ReadDirListsAll ==
    (/\ dpc = "returned"
     /\ count = readDirCount
     /\ rerr = "nil"
     /\ openErr = "ok"
     /\ OnlyFilesAndDirs)
    => rentries = [i \in DOMAIN dirList |->
                     IF dirList[i] = "dir" THEN Append(Name(i), SlashSeparator)
                     ELSE Name(i)]

\* readDir has listed a subdirectory and a file that came in separate batches
C6_Witness ==
    /\ dpc = "returned"
    /\ count = readDirCount
    /\ rerr = "nil"
    /\ dirList = <<"dir", "file">>
    /\ nreads = 3
    /\ Len(rentries) = 2

\* C7: in every state of a listing, the names gathered are those of the
\* entries dealt with so far - a link to a directory with the separator, a link
\* to a regular file without, a link that does not resolve not at all - and
\* every link that did not resolve is logged with its path; such a link does
\* not end the call, and gives it no error: an error returned is a failed
\* Readdir's.
C7_Symlinks ==
    openErr = "ok" =>
        /\ entries = NamesOf(Processed)
        /\ logged = LogOf(Processed)
        /\ dpc = "returned" =>
              /\ rerr \in {"nil", readErr}
              /\ rerr = "nil" => rentries = entries

\* a listing returned the two links that follow a broken one, the first from
\* the same batch and the second from a later one
C7_Witness ==
    /\ dpc = "returned"
    /\ rerr = "nil"
    /\ dirList = <<"link->missing", "link->dir", "link->file">>
    /\ count = readDirCount
    /\ nreads = 3
    /\ rawLen = 1
    /\ rentries = <<Append(Name(2), SlashSeparator), Name(3)>>
    /\ Len(logged) = 1

\* C8 as claimed: a failed open returns no entries, reads nothing, and gives
\* errFileNotFound for a path that is not there or has a component that is not
\* a directory, and the error of os.Open itself otherwise.
C8_OpenFailure ==
    (dpc = "returned" /\ openErr # "ok") =>
        /\ rentries = <<>>
        /\ nreads = 0
        /\ rerr = IF openErr \in {"ENOENT", "ENOTDIR"} THEN errFileNotFound ELSE openErr

\* C9 as claimed: a call whose open succeeded returns no error.
C9_OnlyOpenFails ==
    (dpc = "returned" /\ openErr = "ok") => rerr = "nil"

\* C9 as amended: a call whose open succeeded returns an error only when a
\* Readdir failed with something other than the end of the directory, and then
\* it returns that error and no entries; otherwise it returns the names
\* gathered and no error, whatever the symbolic links resolved to.
C9_OnlyOpenOrReadFails ==
    (dpc = "returned" /\ openErr = "ok") =>
        IF readErr = "nil"
        THEN rerr = "nil" /\ rentries = entries
        ELSE rerr = readErr /\ rentries = <<>>

\* a Readdir failed after names had been gathered, and none was returned
C9_Witness ==
    /\ dpc = "returned"
    /\ openErr = "ok"
    /\ readErr = "EIO"
    /\ rerr = "EIO"
    /\ entries # <<>>
    /\ rentries = <<>>

\* this step is an increment of counter c by th, with a byte count >= 0
IncrementsBy(th, c) ==
    /\ incs'[th] # incs[th]
    /\ incs'[th].ctr = c
    /\ incs'[th].val >= 0

\* C11 as claimed: an increment of a counter with N >= 0 never decreases that
\* counter and leaves the other three counters as they were.
C11_MonotonicIndependent ==
    [][\A th \in Threads, c \in Counters :
          IncrementsBy(th, c) =>
              /\ connStats'[c] >= connStats[c]
              /\ \A d \in Counters \ {c} : connStats'[d] = connStats[d]]_vars

\* C11 as amended: an increment of a counter with N >= 0 adds N to it modulo
\* 2^width - so the counter does not decrease unless the sum passes the
\* largest value, where it wraps - and leaves the other three as they were.
C11_IndependentUpToWrap ==
    [][\A th \in Threads, c \in Counters :
          IncrementsBy(th, c) =>
              /\ connStats'[c] = (connStats[c] + incs'[th].val) % Modulus
              /\ connStats[c] + incs'[th].val < Modulus => connStats'[c] >= connStats[c]
              /\ \A d \in Counters \ {c} : connStats'[d] = connStats[d]]_vars

\* a counter was incremented after another counter had been
C11_Witness ==
    /\ incs[1] = [n |-> 1, ctr |-> "totalOutputBytes", val |-> MaxInt]
    /\ incs[2] = [n |-> 1, ctr |-> "s3InputBytes", val |-> 1]
    /\ connStats["totalOutputBytes"] = MaxInt
    /\ connStats["s3InputBytes"] = 1

\* C17: with increments that are not negative and do not wrap, each field of
\* the ServerConnStats that toServerConnStats returned lies between the value
\* its counter had when the call started and the value it had when the call
\* returned.  (That the four fields together need not be a combination the
\* counters ever held is what the witness shows.)
C17_FieldsWithinCall ==
    \A th \in Threads :
        (cpc[th] = "ret" /\ clean) =>
            \A c \in Counters :
                /\ cstart[th][c] <= csnap[th][c]
                /\ csnap[th][c] <= cend[th][c]

\* a ServerConnStats was returned whose four fields together are no
\* combination of values the counters ever held
C17_Witness ==
    \E th \in Threads :
        /\ cpc[th] = "ret"
        /\ clean
        /\ csnap[th] \notin held
        /\ cstart[th] # cend[th]

\* this step is a call of Readdir
ReaddirCalled == nreads' = nreads + 1

\* C12 as claimed: in a bounded listing every Readdir asks for
\* min(1000, entries still needed); an unbounded listing always asks for 1000.
C12_BatchShrinks ==
    [][ReaddirCalled =>
          /\ count > 0 => asked' = Min(maxEntriesDefault, remaining)
          /\ count < 0 => asked' = maxEntriesDefault]_vars

\* C12 as amended: every Readdir of a call asks for the same number of
\* entries, min(1000, count) when count > 0 and 1000 otherwise, however many
\* entries are still needed.
C12_BatchFixed ==
    [][ReaddirCalled =>
          asked' = IF count > 0 THEN Min(maxEntriesDefault, count)
                   ELSE maxEntriesDefault]_vars

\* the second Readdir of a bounded listing asked for count entries although
\* fewer were still needed
C12_Witness ==
    /\ count > 0
    /\ nreads = 2
    /\ dpc = "range"
    /\ remaining < count
    /\ asked = count

\* this step is a Readdir that returned a batch
BatchRead == dpos' > dpos

\* the kinds that are listed
Listable == {"dir", "file", "link->dir", "link->file"}

\* C13: in a bounded listing (count > 0) a batch at least as long as the
\* remaining budget is cut to its first `remaining` entries when it is read,
\* before any of its entries is classified, and marks the listing done; a
\* shorter batch, and every batch of an unbounded listing, is kept whole.
\* Once the listing is done no further Readdir is made.
C13_TruncateThenStop ==
    [][/\ BatchRead =>
            /\ rawLen' = dpos' - dpos
            /\ entries' = entries
            /\ remaining' = remaining
            /\ LET cutAt == IF count > 0 /\ remaining <= rawLen'
                            THEN remaining ELSE rawLen'
               IN  fis' = [i \in 1..cutAt |-> dpos + i]
            /\ done' = (count > 0 /\ remaining <= rawLen')
       /\ done => nreads' = nreads]_vars

\* a bounded listing has returned fewer names than asked for, its last batch
\* cut and an entry of it dropped, while an entry that would be listed is
\* still unread
C13_Witness ==
    /\ dpc = "returned"
    /\ rerr = "nil"
    /\ count > 0
    /\ done
    /\ Len(rentries) < count
    /\ \E i \in DOMAIN fis : dirList[fis[i]] \notin Listable
    /\ \E i \in DOMAIN dirList : i > dpos /\ dirList[i] \in Listable

\* this step is a Readdir that reported the end of the directory
EndOfDirectory ==
    /\ ReaddirCalled
    /\ dpos' = dpos
    /\ readErr' = "nil"

\* C14: every call of readDirN returns, whatever the count; the Readdir
\* that reports the end of the directory makes it return every name gathered
\* from the batches before, with no error; and an empty directory that is read
\* without failure gives no names and no error.
C14_TerminatesCleanly ==
    /\ <>(dpc = "returned")
    /\ [][EndOfDirectory =>
             /\ dpc' = "returned"
             /\ rentries' = entries
             /\ rentries' = NamesOf(Len(dirList))
             /\ rerr' = "nil"]_vars
    /\ []((dpc = "returned" /\ openErr = "ok" /\ dirList = <<>> /\ readErr = "nil")
            => (rentries = <<>> /\ rerr = "nil"))

\* the end of a directory was reported after two batches, and the names of
\* both were returned
C14_Witness ==
    /\ dpc = "returned"
    /\ rerr = "nil"
    /\ ~done
    /\ nreads = 3
    /\ Len(rentries) = 3

\* th has stored the count and still holds the table's lock
IncStored(th) == pc[th] = "Inc_Unlock"

\* no Inc is running
AllIncsReturned == \A th \in Threads : pc[th] = "idle"

\* C15: when an Inc has stored its count, the table has a map, and this map
\* is the one the Inc found when it looked the key up (or an empty one, if
\* there was none) with the key's count one more than it was, or 1 if the key
\* was not there, and every other key as it was: nothing came between the
\* lookup and the store.  And once all the Inc calls made on a table that
\* started without a map have returned, a key that got all of them counts
\* exactly as many as were made.
C15_IncAtomicCreate ==
    /\ \A th \in Threads :
          IncStored(th) =>
              LET t == frame[th].tbl
                  a == frame[th].api
                  found == pre[th].m
                  now == TableMap(t)
              IN  /\ APIStats[t] # NilRef
                  /\ DOMAIN now = DOMAIN found \cup {a}
                  /\ now[a] = IF a \in DOMAIN found THEN found[a] + 1 ELSE 1
                  /\ \A b \in DOMAIN found \ {a} : now[b] = found[b]
    /\ \A t \in DirectTables, a \in APIs :
          (AllIncsReturned /\ DOMAIN TableMap(t) = {a}) => TableMap(t)[a] = ncalls

\* every thread has called Inc on GetObject of the first table of a new
\* HTTPStats, whose map had not been made, and all the calls have returned
C15_Witness ==
    /\ AllIncsReturned
    /\ ncalls = NThreads
    /\ \A t \in Tables \ {"currentS3Requests"} : APIStats[t] = NilRef
    /\ DOMAIN TableMap("currentS3Requests") = {"GetObject"}
    /\ TableMap("currentS3Requests")["GetObject"] = NThreads

\* th handles a request for api a, and has performed its Inc but not its Dec
InFlight(th, a) ==
    /\ cur[th].op = "Handle"
    /\ cur[th].api = a
    /\ pc[th] \in {"Inc_Unlock", "H_serve", "Dec_Lock", "Dec_Body"}

\* C16: with request handlers that call currentS3Requests.Inc(api) when
\* they start and currentS3Requests.Dec(api) when they complete, the count of
\* every api in currentS3Requests is, in every state, the number of handlers
\* for it that have performed their Inc and not yet their Dec; so it is 0 when
\* all handlers have completed.
C16_InFlightCount ==
    /\ \A a \in APIs :
          MapGet(TableMap("currentS3Requests"), a)
              = Cardinality({th \in Threads : InFlight(th, a)})
    /\ (\A th \in Threads : pc[th] = "idle") =>
          \A a \in APIs : MapGet(TableMap("currentS3Requests"), a) = 0

\* two requests for the same api are being served, one about to complete
C16_Witness ==
    /\ pc[1] = "H_serve"
    /\ pc[2] = "Dec_Body"
    /\ cur[1].api = "PutObject"
    /\ cur[2].api = "PutObject"
    /\ TableMap("currentS3Requests")["PutObject"] = 2

\* C18: when updateStats returns it has recorded exactly one observation,
\* under the api's label and of durationSecs, if the request is S3-class and
\* its method is GET, and none otherwise - whatever the status code and the
\* path.
C18_ObservedIffS3Get ==
    \A th \in Threads :
        pc[th] = "US_ret" =>
            LET r == cur[th].req
                k == <<cur[th].api, r.secs>>
            IN  IF r.isS3 /\ r.method = "GET"
                THEN /\ obs[th] = <<[api |-> cur[th].api, secs |-> r.secs]>>
                     /\ k \in DOMAIN histogram
                     /\ histogram[k] >= 1
                ELSE obs[th] = <<>>

\* a GET of the metrics path answered 500 was observed although it was not
\* counted as a request
C18_Witness ==
    \E th \in Threads :
        /\ pc[th] = "US_ret"
        /\ cur[th].req.isS3
        /\ cur[th].req.path = ScrapePath
        /\ cur[th].req.status = 500
        /\ Len(obs[th]) = 1
        /\ eff[th] = ZeroEff

\* among the first n entries, the symbolic links that do not resolve
Failed(n) == Cardinality({i \in 1..n : dirList[i] = "link->missing"})

\* C19: in a listing with count > 0, in every state after the open:
\* remaining is count less the entries examined other than symbolic links that
\* did not resolve (each of the others took exactly 1 off, listed or not; those
\* took nothing off); before every Readdir remaining >= 1; at most
\* count - remaining names have been gathered; and the entries examined exceed
\* count by no more than the unresolved links of the batches before the one
\* that was cut.
C19_BudgetAccounting ==
    (count > 0 /\ openErr = "ok" /\ dpc # "open") =>
        /\ remaining = count - (Processed - Failed(Processed))
        /\ (dpc = "loop" /\ ~done) => remaining >= 1
        /\ Len(entries) <= count - remaining
        /\ Processed <= count + Failed(IF done THEN dpos - rawLen ELSE Processed)

\* a listing of 2 examined 3 entries: an unresolved link in the first batch,
\* then an entry that is neither file nor directory and a file, which used up
\* the budget between them though only the file was listed
C19_Witness ==
    /\ dpc = "returned"
    /\ count = 2
    /\ dirList = <<"link->missing", "other", "file">>
    /\ done
    /\ Processed = 3
    /\ remaining = 0
    /\ rentries = <<Name(3)>>

\* the count of api a in table t
CountOf(t, a) == MapGet(TableMap(t), a)

\* C20: with the tables written by updateStats only, in every state the
\* errors counted for an api are no more than the requests counted for it,
\* and no step changes currentS3Requests.
C20_ErrorsWithinRequests ==
    /\ [](\A a \in APIs : CountOf("totalS3Errors", a) <= CountOf("totalS3Requests", a))
    /\ [][/\ APIStats'["currentS3Requests"] = APIStats["currentS3Requests"]
          /\ TableMap("currentS3Requests")' = TableMap("currentS3Requests")]_vars

\* a failed request and a successful one for the same api have been counted,
\* the failed one by a call that is still running
C20_Witness ==
    /\ CountOf("totalS3Errors", "GetObject") >= 1
    /\ CountOf("totalS3Requests", "GetObject") > CountOf("totalS3Errors", "GetObject")
    /\ \E th \in Threads : pc[th] = "Inc_Unlock" /\ frame[th].tbl = "totalS3Errors"
    /\ APIStats["currentS3Requests"] = NilRef

====
